---------------------------- MODULE Spec2Model ----------------------------
(***************************************************************************)
(* State-machine models of three view components of the application shell: *)
(*   - ToolPermissionModal (confirmation dialog with a two-step reject),   *)
(*   - WebPreview          (port selection over a fetched port list),      *)
(*   - Dropdown            (single-select popover, flat or grouped items). *)
(* Each component owns its own local state and is driven by its own        *)
(* specification (SpecModal, SpecPreview, SpecDropdown); the components    *)
(* share nothing.  Besides the program's state each component carries      *)
(* history variables: the last event, the callbacks that event invoked,    *)
(* and a snapshot of the state the event was handled in.                   *)
(***************************************************************************)
EXTENDS Naturals, Integers, Sequences, FiniteSets

VARIABLES
  \* ---- ToolPermissionModal: props
  request,                \* PermissionRequest | null
  isLoading,              \* boolean prop
  \* ---- ToolPermissionModal: local state (useState)
  showRejectInput,
  alternativeInstruction,
  \* ---- ToolPermissionModal: history
  mEvent,                 \* name of the last event
  mCalls,                 \* callbacks invoked by the last event, in order
  mPre,                   \* props and local state the last event was handled in
  \* ---- WebPreview: props, query result, local state
  sandboxId,
  isActive,
  queryData,              \* the query's data: defined flag and port list
  loading,                \* the query's isLoading
  selectedPortId,
  \* ---- WebPreview: history
  pEvent,
  pCalls,
  pPreView,               \* the view that was rendered when the last event happened
  lastSelected,           \* port number the user last selected (NullId: none)
  \* ---- Dropdown: props and local state
  items,
  value,
  disabled,
  isOpen,
  \* ---- Dropdown: history
  dEvent,
  dCalls,
  dPre

modalVars == <<request, isLoading, showRejectInput, alternativeInstruction,
               mEvent, mCalls, mPre>>
previewVars == <<sandboxId, isActive, queryData, loading, selectedPortId,
                 pEvent, pCalls, pPreView, lastSelected>>
dropdownVars == <<items, value, disabled, isOpen, dEvent, dCalls, dPre>>
vars == <<modalVars, previewVars, dropdownVars>>

(***************************************************************************)
(* Text: strings are sequences of characters; " " is the whitespace        *)
(* character.                                                              *)
(***************************************************************************)
MaxLen == 2
Chars == {" ", "a"}
Strs == UNION {[1..n -> Chars] : n \in 0..MaxLen}

RECURSIVE TrimStart(_)
TrimStart(s) == IF s # <<>> /\ Head(s) = " " THEN TrimStart(Tail(s)) ELSE s

RECURSIVE TrimEnd(_)
TrimEnd(s) ==
  IF s # <<>> /\ s[Len(s)] = " " THEN TrimEnd(SubSeq(s, 1, Len(s) - 1)) ELSE s

\* String.prototype.trim: whitespace removed from both ends.
trim(s) == TrimEnd(TrimStart(s))

\* JavaScript truthiness of a string: non-empty.
Truthy(s) == s # <<>>

(***************************************************************************)
(*                          ToolPermissionModal                            *)
(***************************************************************************)
NoRequest == "null"
Requests == {"req1", "req2"}

OnApproveCall == [fn |-> "onApprove", hasArg |-> FALSE, arg |-> <<>>]
OnRejectCall == [fn |-> "onReject", hasArg |-> FALSE, arg |-> <<>>]
OnRejectWith(t) == [fn |-> "onReject", hasArg |-> TRUE, arg |-> t]

\* The outcome of a handler: the callbacks it invokes and the local state
\* it leaves.
Outcome(calls, show, text) ==
  [calls |-> calls, showRejectInput |-> show, alternativeInstruction |-> text]

\* Faulty variant of handleReject: the first press already resolves.
handleReject_ResolvesAtOnce(show, text) ==
  IF show /\ Truthy(trim(text))
    THEN Outcome(<<OnRejectWith(trim(text))>>, FALSE, <<>>)
    ELSE Outcome(<<OnRejectCall>>, FALSE, <<>>)

\* Faulty variant of handleReject: the text is passed on untrimmed.
handleReject_NoTrim(show, text) ==
  IF show /\ Truthy(trim(text))
    THEN Outcome(<<OnRejectWith(text)>>, FALSE, <<>>)
    ELSE Outcome(<<>>, TRUE, text)

handleReject(show, text) ==
  IF show /\ Truthy(trim(text))
    THEN Outcome(<<OnRejectWith(trim(text))>>, FALSE, <<>>)
    ELSE Outcome(<<>>, TRUE, text)

handleJustReject(show, text) == Outcome(<<OnRejectCall>>, FALSE, <<>>)

\* The Approve button's onClick is the onApprove prop itself.
approveClick(show, text) == Outcome(<<OnApproveCall>>, show, text)

\* The textarea's onChange stores the field's new value.
textareaChange(show, text, t) == Outcome(<<>>, show, t)

\* The disabled attribute of each control.
RejectDisabled == isLoading
\* Faulty variant of ApproveDisabled: the attribute is missing.
ApproveDisabled_Never == FALSE
ApproveDisabled == isLoading
JustRejectDisabled == isLoading
SendDisabled == isLoading \/ ~Truthy(trim(alternativeInstruction))
TextareaDisabled == isLoading

\* The component renders nothing without a request.
ModalShown == request # NoRequest

ModalSnapshot ==
  [request |-> request, isLoading |-> isLoading,
   showRejectInput |-> showRejectInput,
   alternativeInstruction |-> alternativeInstruction]

\* A user event on a control: a disabled control ignores it.
ModalUserEvent(name, isDisabled, outcome) ==
  LET o == IF isDisabled
             THEN Outcome(<<>>, showRejectInput, alternativeInstruction)
             ELSE outcome
  IN /\ mEvent' = name
     /\ mCalls' = o.calls
     /\ mPre' = ModalSnapshot
     /\ showRejectInput' = o.showRejectInput
     /\ alternativeInstruction' = o.alternativeInstruction
     /\ UNCHANGED <<request, isLoading>>

ClickReject ==
  /\ ModalShown /\ ~showRejectInput
  /\ ModalUserEvent("ClickReject", RejectDisabled,
                    handleReject(showRejectInput, alternativeInstruction))
  /\ UNCHANGED <<previewVars, dropdownVars>>

ClickApprove ==
  /\ ModalShown /\ ~showRejectInput
  /\ ModalUserEvent("ClickApprove", ApproveDisabled,
                    approveClick(showRejectInput, alternativeInstruction))
  /\ UNCHANGED <<previewVars, dropdownVars>>

ClickJustReject ==
  /\ ModalShown /\ showRejectInput
  /\ ModalUserEvent("ClickJustReject", JustRejectDisabled,
                    handleJustReject(showRejectInput, alternativeInstruction))
  /\ UNCHANGED <<previewVars, dropdownVars>>

ClickSend ==
  /\ ModalShown /\ showRejectInput
  /\ ModalUserEvent("ClickSend", SendDisabled,
                    handleReject(showRejectInput, alternativeInstruction))
  /\ UNCHANGED <<previewVars, dropdownVars>>

TypeText ==
  /\ ModalShown /\ showRejectInput
  /\ \E t \in Strs :
       /\ t # alternativeInstruction
       /\ ModalUserEvent("TypeText", TextareaDisabled,
                         textareaChange(showRejectInput, alternativeInstruction, t))
  /\ UNCHANGED <<previewVars, dropdownVars>>

\* The parent replaces or removes the request; local state is kept by the
\* mounted component.
ParentSetRequest ==
  /\ \E r \in Requests \cup {NoRequest} :
       /\ r # request
       /\ request' = r
  /\ mEvent' = "ParentSetRequest"
  /\ mCalls' = <<>>
  /\ mPre' = ModalSnapshot
  /\ UNCHANGED <<isLoading, showRejectInput, alternativeInstruction>>
  /\ UNCHANGED <<previewVars, dropdownVars>>

ParentSetLoading ==
  /\ isLoading' = ~isLoading
  /\ mEvent' = "ParentSetLoading"
  /\ mCalls' = <<>>
  /\ mPre' = ModalSnapshot
  /\ UNCHANGED <<request, showRejectInput, alternativeInstruction>>
  /\ UNCHANGED <<previewVars, dropdownVars>>

ModalUserEvents ==
  {"ClickReject", "ClickApprove", "ClickJustReject", "ClickSend", "TypeText"}

NextModal ==
  \/ ClickReject
  \/ ClickApprove
  \/ ClickJustReject
  \/ ClickSend
  \/ TypeText
  \/ ParentSetRequest
  \/ ParentSetLoading

(***************************************************************************)
(*                               WebPreview                                *)
(***************************************************************************)
\* Port numbers are those a listening socket can have, 1 and up; a port
\* list holds at most MaxPorts entries.
MaxPort == 2
MaxPorts == 2
NullId == -1
NoSandbox == "undefined"
Sandboxes == {"sb1", "sb2"}
Urls == {"u1", "u2"}

PortInfos == [port : 1..MaxPort, previewUrl : Urls]

\* null / undefined where a PortInfo is expected.
NoPort == [port |-> NullId, previewUrl |-> ""]

\* The port lists the query can deliver: every open port listed once.
PortLists ==
  {l \in UNION {[1..n -> PortInfos] : n \in 0..MaxPorts} :
     \A i, j \in DOMAIN l : l[i].port = l[j].port => i = j}

NoData == [defined |-> FALSE, list |-> <<>>]
DataOf(l) == [defined |-> TRUE, list |-> l]

\* data: ports = []  -- the default applies while the query has no data.
Ports == IF queryData.defined THEN queryData.list ELSE <<>>

\* The query is enabled only with a sandbox and while the view is active.
QueryEnabled == sandboxId # NoSandbox /\ isActive

\* Array.prototype.find: the first matching entry, else undefined.
Find(ports, id) ==
  IF \E i \in DOMAIN ports : ports[i].port = id
    THEN ports[CHOOSE i \in DOMAIN ports :
                 /\ ports[i].port = id
                 /\ \A j \in DOMAIN ports : ports[j].port = id => i <= j]
    ELSE NoPort

\* Faulty variant of SelectedPortOf: the selection is ignored.
SelectedPortOf_FirstOnly(ports, id) ==
  IF Len(ports) > 0 THEN ports[1] ELSE NoPort

SelectedPortOf(ports, id) ==
  IF Len(ports) > 0
    THEN IF Find(ports, id) # NoPort THEN Find(ports, id) ELSE ports[1]
    ELSE NoPort

selectedPort == SelectedPortOf(Ports, selectedPortId)

\* setSelectedPortId(port?.port || null): null, undefined and 0 store null.
setSelectedPort(port) ==
  IF port = NoPort THEN NullId
  ELSE IF port.port = 0 THEN NullId
  ELSE port.port

\* The three render branches.
ViewOf(sb, ports) ==
  IF sb = NoSandbox THEN "no-sandbox"
  ELSE IF Len(ports) = 0 THEN "empty"
  ELSE "ports"

View == ViewOf(sandboxId, Ports)

\* Faulty variant of ControlsOf: the no-sandbox view shows the button too.
ControlsOf_RefreshEverywhere(view) ==
  CASE view = "no-sandbox" -> {"RefreshButton"}
    [] view = "empty" -> {"RefreshButton"}
    [] view = "ports" -> {"Panel.onPortChange", "Panel.onRefreshPorts"}

\* The interactive controls each branch renders or hands to Panel.
ControlsOf(view) ==
  CASE view = "no-sandbox" -> {}
    [] view = "empty" -> {"RefreshButton"}
    [] view = "ports" -> {"Panel.onPortChange", "Panel.onRefreshPorts"}

Controls == ControlsOf(View)

RefreshButtonDisabled == loading

\* fetchPorts calls the query's refetch, which starts a fetch.
fetchPorts == <<"refetch">>

PreviewEvent(name, calls) ==
  /\ pEvent' = name
  /\ pCalls' = calls
  /\ pPreView' = View

ClickRefresh ==
  /\ "RefreshButton" \in Controls
  /\ IF RefreshButtonDisabled
       THEN /\ PreviewEvent("ClickRefresh", <<>>)
            /\ UNCHANGED loading
       ELSE /\ PreviewEvent("ClickRefresh", fetchPorts)
            /\ loading' = TRUE
  /\ UNCHANGED <<sandboxId, isActive, queryData, selectedPortId, lastSelected>>
  /\ UNCHANGED <<modalVars, dropdownVars>>

PanelRefreshPorts ==
  /\ "Panel.onRefreshPorts" \in Controls
  /\ PreviewEvent("PanelRefreshPorts", fetchPorts)
  /\ loading' = TRUE
  /\ UNCHANGED <<sandboxId, isActive, queryData, selectedPortId, lastSelected>>
  /\ UNCHANGED <<modalVars, dropdownVars>>

PanelPortChange ==
  /\ "Panel.onPortChange" \in Controls
  /\ \E port \in PortInfos \cup {NoPort} :
       /\ selectedPortId' = setSelectedPort(port)
       /\ lastSelected' = port.port
  /\ PreviewEvent("PanelPortChange", <<>>)
  /\ UNCHANGED <<sandboxId, isActive, queryData, loading>>
  /\ UNCHANGED <<modalVars, dropdownVars>>

\* The query layer starts a fetch of its own while the query is enabled.
QueryStart ==
  /\ QueryEnabled /\ ~loading
  /\ loading' = TRUE
  /\ PreviewEvent("QueryStart", <<>>)
  /\ UNCHANGED <<sandboxId, isActive, queryData, selectedPortId, lastSelected>>
  /\ UNCHANGED <<modalVars, dropdownVars>>

\* A fetch delivers a port list.
QueryDone ==
  /\ loading
  /\ \E l \in PortLists : queryData' = DataOf(l)
  /\ loading' = FALSE
  /\ PreviewEvent("QueryDone", <<>>)
  /\ UNCHANGED <<sandboxId, isActive, selectedPortId, lastSelected>>
  /\ UNCHANGED <<modalVars, dropdownVars>>

\* A fetch fails: the data stays what it was.
QueryFail ==
  /\ loading
  /\ loading' = FALSE
  /\ PreviewEvent("QueryFail", <<>>)
  /\ UNCHANGED <<sandboxId, isActive, queryData, selectedPortId, lastSelected>>
  /\ UNCHANGED <<modalVars, dropdownVars>>

\* The parent changes the sandbox: the query key changes, its data is what
\* the query layer holds for the new key, and local selection is kept.
ParentSetSandbox ==
  /\ \E sb \in Sandboxes \cup {NoSandbox} :
       /\ sb # sandboxId
       /\ sandboxId' = sb
       /\ IF sb = NoSandbox
            THEN queryData' = NoData
            ELSE queryData' \in {NoData} \cup {DataOf(l) : l \in PortLists}
  /\ loading' = FALSE
  /\ PreviewEvent("ParentSetSandbox", <<>>)
  /\ UNCHANGED <<isActive, selectedPortId, lastSelected>>
  /\ UNCHANGED <<modalVars, dropdownVars>>

ParentSetActive ==
  /\ isActive' = ~isActive
  /\ PreviewEvent("ParentSetActive", <<>>)
  /\ UNCHANGED <<sandboxId, queryData, loading, selectedPortId, lastSelected>>
  /\ UNCHANGED <<modalVars, dropdownVars>>

NextPreview ==
  \/ ClickRefresh
  \/ PanelRefreshPorts
  \/ PanelPortChange
  \/ QueryStart
  \/ QueryDone
  \/ QueryFail
  \/ ParentSetSandbox
  \/ ParentSetActive

(***************************************************************************)
(*                                Dropdown                                 *)
(***************************************************************************)
MaxItems == 3
Keys == {"k1", "k2"}
Labels == {"Recent", "Other"}

\* The item type T: two items may carry the same key and differ otherwise.
T == [key : Keys, rev : {"r1", "r2"}]

\* The caller's key function.
getItemKey(item) == item.key

ItemElem(t) == [type |-> "item", data |-> t]
HeaderElem(l) == [type |-> "header", label |-> l]
GroupedElems == {ItemElem(t) : t \in T} \cup {HeaderElem(l) : l \in Labels}

\* readonly T[] | readonly DropdownItemType<T>[]
FlatLists == UNION {[1..n -> T] : n \in 0..MaxItems}
GroupedLists == UNION {[1..n -> GroupedElems] : n \in 0..MaxItems}
ItemLists == FlatLists \cup GroupedLists

\* Non-empty and the first element is an object carrying a "type" field.
isGroupedItems(its) == Len(its) > 0 /\ "type" \in DOMAIN its[1]

HeaderRow(label, borderTop) ==
  [kind |-> "header", label |-> label, borderTop |-> borderTop]
ItemRow(data, isSelected) ==
  [kind |-> "item", data |-> data, isSelected |-> isSelected]

\* Faulty variant of isSelectedOf: identity instead of key equality.
isSelectedOf_ByIdentity(item, v) == item = v

\* isSelected = getItemKey(item) === getItemKey(value)
isSelectedOf(item, v) == getItemKey(item) = getItemKey(v)

\* Faulty variant of headerBorderTop: the border is never removed.
headerBorderTop_Always(index) == TRUE

\* The header's top border is removed (border-t-0) at array index 0, which
\* is position 1 of the sequence.
headerBorderTop(index) == index # 1

\* What items.map renders at a position, in grouped and in flat mode.
RenderRow(its, v, index) ==
  IF isGroupedItems(its)
    THEN IF its[index].type = "header"
           THEN HeaderRow(its[index].label, headerBorderTop(index))
           ELSE ItemRow(its[index].data, isSelectedOf(its[index].data, v))
    ELSE ItemRow(its[index], isSelectedOf(its[index], v))

RenderRows(its, v) == [index \in 1..Len(its) |-> RenderRow(its, v, index)]

Rows == RenderRows(items, value)

\* Faulty variant of ListShown: disabled is not consulted.
ListShown_IgnoresDisabled == isOpen

\* {isOpen && !disabled && (...)}
ListShown == isOpen /\ ~disabled

TriggerDisabled == disabled

\* onClick={() => !disabled && setIsOpen(!isOpen)}
triggerOnClick(dis, open) == IF ~dis THEN ~open ELSE open

OnSelectCall(item) == [fn |-> "onSelect", arg |-> item]

\* Faulty variant of itemOnSelect: the list is left open.
itemOnSelect_StaysOpen(item, open) ==
  [calls |-> <<OnSelectCall(item)>>, isOpen |-> open]

\* onSelect={() => { onSelect(item); setIsOpen(false); }}
itemOnSelect(item, open) == [calls |-> <<OnSelectCall(item)>>, isOpen |-> FALSE]

DropdownSnapshot == [isOpen |-> isOpen, disabled |-> disabled]

TriggerClick ==
  /\ isOpen' = IF TriggerDisabled THEN isOpen ELSE triggerOnClick(disabled, isOpen)
  /\ dEvent' = [type |-> "TriggerClick"]
  /\ dCalls' = <<>>
  /\ dPre' = DropdownSnapshot
  /\ UNCHANGED <<items, value, disabled>>
  /\ UNCHANGED <<modalVars, previewVars>>

\* The user picks one of the item rows of the shown list.
SelectRow ==
  /\ ListShown
  /\ \E index \in DOMAIN Rows :
       /\ Rows[index].kind = "item"
       /\ dEvent' = [type |-> "Select", index |-> index]
       /\ dCalls' = itemOnSelect(Rows[index].data, isOpen).calls
       /\ isOpen' = itemOnSelect(Rows[index].data, isOpen).isOpen
  /\ dPre' = DropdownSnapshot
  /\ UNCHANGED <<items, value, disabled>>
  /\ UNCHANGED <<modalVars, previewVars>>

ParentSetValue ==
  /\ \E v \in T : v # value /\ value' = v
  /\ dEvent' = [type |-> "ParentSetValue"]
  /\ dCalls' = <<>>
  /\ dPre' = DropdownSnapshot
  /\ UNCHANGED <<items, disabled, isOpen>>
  /\ UNCHANGED <<modalVars, previewVars>>

ParentSetDisabled ==
  /\ disabled' = ~disabled
  /\ dEvent' = [type |-> "ParentSetDisabled"]
  /\ dCalls' = <<>>
  /\ dPre' = DropdownSnapshot
  /\ UNCHANGED <<items, value, isOpen>>
  /\ UNCHANGED <<modalVars, previewVars>>

NextDropdown ==
  \/ TriggerClick
  \/ SelectRow
  \/ ParentSetValue
  \/ ParentSetDisabled

(***************************************************************************)
(* Specifications: one per component, the other components at rest (the    *)
(* modal without a request, the preview without a sandbox, the dropdown    *)
(* with no items).                                                         *)
(***************************************************************************)
InitOf(requests, sandboxes, actives, lists, values) ==
  /\ request \in requests
  /\ isLoading \in (IF requests = {NoRequest} THEN {FALSE} ELSE BOOLEAN)
  /\ showRejectInput = FALSE
  /\ alternativeInstruction = <<>>
  /\ mEvent = "init"
  /\ mCalls = <<>>
  /\ mPre = ModalSnapshot
  /\ sandboxId \in sandboxes
  /\ isActive \in actives
  /\ queryData = NoData
  /\ loading = FALSE
  /\ selectedPortId = NullId
  /\ pEvent = "init"
  /\ pCalls = <<>>
  /\ pPreView = View
  /\ lastSelected = NullId
  /\ items \in lists
  /\ value \in values
  /\ disabled \in (IF lists = {<<>>} THEN {FALSE} ELSE BOOLEAN)
  /\ isOpen = FALSE
  /\ dEvent = [type |-> "init"]
  /\ dCalls = <<>>
  /\ dPre = DropdownSnapshot

RestValue == CHOOSE t \in T : TRUE

InitModal ==
  InitOf(Requests \cup {NoRequest}, {NoSandbox}, {FALSE}, {<<>>}, {RestValue})

InitPreview ==
  InitOf({NoRequest}, Sandboxes \cup {NoSandbox}, BOOLEAN, {<<>>}, {RestValue})

InitDropdown ==
  InitOf({NoRequest}, {NoSandbox}, {FALSE}, ItemLists, T)

SpecModal == InitModal /\ [][NextModal]_vars

SpecPreview == InitPreview /\ [][NextPreview]_vars

SpecDropdown == InitDropdown /\ [][NextDropdown]_vars

(***************************************************************************)
(*                          Properties: the modal                          *)
(***************************************************************************)

\* C1: pressing Reject in the normal state (request present, reject input
\* not visible) invokes neither onReject nor onApprove; it leaves the
\* request and the text alone and its only effect is to reveal the reject
\* input (no effect at all while the button is disabled by isLoading).
C1_RejectOnlyReveals ==
  mEvent = "ClickReject" =>
    /\ mCalls = <<>>
    /\ request = mPre.request
    /\ alternativeInstruction = mPre.alternativeInstruction
    /\ showRejectInput = ~mPre.isLoading

\* C1 witness: Reject was pressed in the normal state of an enabled dialog
\* and the reject input is now visible with the request still pending.
C1_Witness ==
  /\ mEvent = "ClickReject"
  /\ mPre.request # NoRequest /\ ~mPre.showRejectInput /\ ~mPre.isLoading
  /\ showRejectInput /\ request # NoRequest /\ mCalls = <<>>

\* C2 as claimed, in the cases where the button can be pressed (dialog not
\* loading, text not only whitespace): with the reject input visible, for
\* every non-empty text t pressing Send Instructions invokes onReject
\* exactly once with t as entered, clears the text and hides the reject
\* input.
C2_SendsTextAsEntered ==
  (/\ mEvent = "ClickSend"
   /\ ~mPre.isLoading
   /\ mPre.alternativeInstruction # <<>>
   /\ trim(mPre.alternativeInstruction) # <<>>) =>
    /\ mCalls = <<OnRejectWith(mPre.alternativeInstruction)>>
    /\ alternativeInstruction = <<>>
    /\ ~showRejectInput

\* C2 amended: with the reject input visible and the dialog not loading,
\* for every text whose trimmed form is non-empty, pressing Send
\* Instructions invokes onReject exactly once with the trimmed text, clears
\* the text and hides the reject input; for empty or whitespace-only text
\* (or while loading) the press invokes nothing and changes nothing.
C2_SendsTrimmedText ==
  mEvent = "ClickSend" =>
    IF ~mPre.isLoading /\ trim(mPre.alternativeInstruction) # <<>>
      THEN /\ mCalls = <<OnRejectWith(trim(mPre.alternativeInstruction))>>
           /\ alternativeInstruction = <<>>
           /\ ~showRejectInput
      ELSE /\ mCalls = <<>>
           /\ alternativeInstruction = mPre.alternativeInstruction
           /\ showRejectInput

\* C2 witness: Send Instructions resolved a request whose text carried
\* surrounding whitespace.
C2_Witness ==
  /\ mEvent = "ClickSend"
  /\ mPre.showRejectInput
  /\ mPre.alternativeInstruction # trim(mPre.alternativeInstruction)
  /\ Len(mCalls) = 1
  /\ alternativeInstruction = <<>> /\ ~showRejectInput

\* C3: while isLoading is true and a request is present, no user action
\* (Approve, Reject, Just Reject, Send Instructions, typing) invokes a
\* callback or changes the reject-input visibility or the text, and the
\* dialog stays shown.
C3_LoadingSuppressesUserActions ==
  (mEvent \in ModalUserEvents /\ mPre.isLoading /\ mPre.request # NoRequest) =>
    /\ mCalls = <<>>
    /\ showRejectInput = mPre.showRejectInput
    /\ alternativeInstruction = mPre.alternativeInstruction
    /\ request = mPre.request
    /\ ModalShown

\* C3 witness: Send Instructions was pressed on sendable text while the
\* dialog was loading.
C3_Witness ==
  /\ mEvent = "ClickSend"
  /\ mPre.isLoading /\ mPre.request # NoRequest
  /\ mPre.showRejectInput /\ trim(mPre.alternativeInstruction) # <<>>

\* C4 as claimed: whenever the modal goes from hidden (no request) to shown
\* (request present) it is in the normal state: reject input not visible,
\* text empty.
C4_ShownStartsNormal ==
  (/\ mEvent = "ParentSetRequest"
   /\ mPre.request = NoRequest
   /\ request # NoRequest) =>
    /\ ~showRejectInput
    /\ alternativeInstruction = <<>>

(***************************************************************************)
(*                       Properties: the web preview                       *)
(***************************************************************************)

\* C5: after any port selections and fetches the selected port is null iff
\* the port list is empty; otherwise it is an entry of the list: the one
\* carrying the port number the user last selected when the list has it,
\* and the first entry when nothing was selected or the list has it not.
C5_SelectedPortFollowsSelection ==
  /\ (selectedPort = NoPort) <=> (Ports = <<>>)
  /\ Ports # <<>> =>
       /\ \E i \in DOMAIN Ports : Ports[i] = selectedPort
       /\ IF \E i \in DOMAIN Ports : Ports[i].port = lastSelected
            THEN selectedPort.port = lastSelected
            ELSE selectedPort = Ports[1]

\* C5 witness: a fetch delivered a list without the port the user had
\* selected, and the selection fell back to the first entry.
C5_Witness ==
  /\ pEvent = "QueryDone"
  /\ lastSelected # NullId
  /\ Ports # <<>>
  /\ \A i \in DOMAIN Ports : Ports[i].port # lastSelected
  /\ selectedPort = Ports[1]

RefreshControls == {"RefreshButton", "Panel.onRefreshPorts"}

\* C6 as claimed: a manual refresh action is exposed only in the empty-state
\* view, and refetch is invoked only from there.
C6_RefreshOnlyInEmptyView ==
  /\ Controls \cap RefreshControls # {} => View = "empty"
  /\ pCalls # <<>> => pPreView = "empty"

\* C6 amended: a manual refresh action is exposed exactly when a sandboxId
\* is present: as the Refresh button in the empty-state view and as the
\* onRefreshPorts callback handed to Panel in the ports-available view;
\* the no-sandbox view exposes none, and refetch is invoked only by one of
\* these two controls.
C6_RefreshWhereSandbox ==
  /\ (Controls \cap RefreshControls # {}) <=> (sandboxId # NoSandbox)
  /\ View = "empty" => Controls \cap RefreshControls = {"RefreshButton"}
  /\ View = "ports" => Controls \cap RefreshControls = {"Panel.onRefreshPorts"}
  /\ pCalls # <<>> =>
       /\ pCalls = <<"refetch">>
       /\ \/ pEvent = "ClickRefresh" /\ pPreView = "empty"
          \/ pEvent = "PanelRefreshPorts" /\ pPreView = "ports"

\* C6 witness: the Panel of the ports-available view invoked the refresh.
C6_Witness ==
  /\ pEvent = "PanelRefreshPorts"
  /\ pPreView = "ports"
  /\ pCalls = <<"refetch">>

(***************************************************************************)
(*                        Properties: the dropdown                         *)
(***************************************************************************)

\* The item at a position of the collection.
ItemAt(its, index) == IF "type" \in DOMAIN its[index] THEN its[index].data ELSE its[index]

\* The positions of the collection that hold items (not headers).
ItemPositions ==
  {i \in DOMAIN items : "type" \in DOMAIN items[i] => items[i].type = "item"}

HeaderPositions == DOMAIN items \ ItemPositions

SelectedRows == {i \in ItemPositions : Rows[i].isSelected}

MatchingPositions ==
  {i \in ItemPositions : getItemKey(ItemAt(items, i)) = getItemKey(value)}

\* C7: selecting an item of the open list (flat or grouped) invokes onSelect
\* exactly once with that item and leaves the dropdown closed; no other
\* event invokes onSelect.
C7_SelectCallsOnSelectOnceAndCloses ==
  /\ dEvent.type = "Select" =>
       /\ dPre.isOpen /\ ~dPre.disabled
       /\ dEvent.index \in ItemPositions
       /\ dCalls = <<OnSelectCall(ItemAt(items, dEvent.index))>>
       /\ ~isOpen
  /\ dEvent.type # "Select" => dCalls = <<>>

\* C7 witness: an item below a header of a grouped list was selected.
C7_Witness ==
  /\ dEvent.type = "Select"
  /\ isGroupedItems(items)
  /\ HeaderPositions # {}
  /\ dEvent.index > 1
  /\ Len(dCalls) = 1 /\ ~isOpen

C9_DisabledBlocksOpen ==
  /\ disabled => ~ListShown
  /\ (dEvent.type = "TriggerClick" /\ dPre.disabled) => isOpen = dPre.isOpen
  /\ (dEvent.type \in {"TriggerClick", "Select"} /\ dPre.disabled) => dCalls = <<>>
  /\ dEvent.type = "Select" => ~dPre.disabled
  /\ (isOpen /\ ~dPre.isOpen) => (dEvent.type = "TriggerClick" /\ ~dPre.disabled)

\* C9 witness: the trigger of a dropdown that was disabled while open was
\* clicked, and nothing changed.
C9_Witness ==
  /\ dEvent.type = "TriggerClick"
  /\ dPre.disabled /\ dPre.isOpen
  /\ disabled /\ isOpen /\ ~ListShown

\* C10 as claimed: in a grouped collection the first header has no top
\* separator and every later header has one.
C10_FirstHeaderNoSeparator ==
  (ListShown /\ isGroupedItems(items)) =>
    \A i \in HeaderPositions :
      Rows[i].borderTop <=> (\E j \in HeaderPositions : j < i)

\* C10 amended: in a grouped collection a header has no top separator
\* exactly when it is the first element of the collection; so when the
\* collection starts with a header, that first header has none and every
\* later header has one, and when items come before the first header every
\* header has one.
C10_SeparatorUnlessFirstElement ==
  (ListShown /\ isGroupedItems(items)) =>
    /\ \A i \in HeaderPositions : Rows[i].kind = "header" /\ (Rows[i].borderTop <=> i # 1)
    /\ 1 \in HeaderPositions =>
         \A i \in HeaderPositions :
           Rows[i].borderTop <=> (\E j \in HeaderPositions : j < i)
    /\ 1 \notin HeaderPositions => \A i \in HeaderPositions : Rows[i].borderTop

\* C10 witness: [header "Recent", item A, item B] with value A is shown:
\* A is marked selected and "Recent" has no top separator.
C10_Witness ==
  /\ ListShown
  /\ Len(items) = 3
  /\ items[1] = HeaderElem("Recent")
  /\ items[2] = ItemElem(value)
  /\ items[3] \in {ItemElem(t) : t \in T} /\ items[3].data.key # value.key
  /\ Rows[2].isSelected /\ ~Rows[3].isSelected
  /\ ~Rows[1].borderTop

=============================================================================
